---- MODULE Spec2Model ----
(***************************************************************************)
(* Model of the download orchestration of Epic-Manifest-Downloader         *)
(* (src/main.py): the DownloadThread job context (manifest resolution,     *)
(* two-stage decode, hand-off to the DLManager engine), the UpdateProgress *)
(* adapter, and the MainWindow caller context that starts jobs, receives   *)
(* the queued progress_signal / finished signals and cancels on close.     *)
(***************************************************************************)
EXTENDS Integers, Sequences, FiniteSets, TLC

(***************************************************************************)
(* Bounds of the model.                                                    *)
(***************************************************************************)
\* number of DownloadThread instances download_file may create
MaxJobs == 1
\* number of samples the engines put on progress_queue, over all jobs
MaxSamples == 2
\* number of closeEvent deliveries
MaxCloses == 2

(***************************************************************************)
(* Strings are sequences of one-character strings.                         *)
(***************************************************************************)
Lower == {"a","b","c","d","e","f","g","h","i","j","k","l","m",
          "n","o","p","q","r","s","t","u","v","w","x","y","z"}
Upper == {"A","B","C","D","E","F","G","H","I","J","K","L","M",
          "N","O","P","Q","R","S","T","U","V","W","X","Y","Z"}
Digit == {"0","1","2","3","4","5","6","7","8","9"}
AlNum == Lower \cup Upper \cup Digit

\* [-a-zA-Z0-9@:%._\+~#=]
HostClass == AlNum \cup {"-","@",":","%",".","_","+","~","#","="}
\* [a-zA-Z0-9()]
TldClass == AlNum \cup {"(",")"}
\* [-a-zA-Z0-9()@:%_\+.~#?&=/]
PathClass == AlNum \cup {"-","(",")","@",":","%","_","+",".","~","#","?","&","=","/"}
\* \w of the re module, for \b
WordClass == AlNum \cup {"_"}

\* {1,256} and {1,6} of url_regex
HostMax == 256
TldMax == 6

\* positions are indices of the next character to read, 1..Len(s)+1
\* the positions reached from P by reading the literal lit
Lit(s, P, lit) ==
    { p + Len(lit) : p \in { q \in P : /\ q + Len(lit) - 1 <= Len(s)
                                       /\ SubSeq(s, q, q + Len(lit) - 1) = lit } }

\* the positions reached from P by reading lo..hi characters of class cls
Rep(s, P, cls, lo, hi) ==
    { q \in 1..(Len(s) + 1) :
        \E p \in P : /\ q - p >= lo
                     /\ q - p <= hi
                     /\ \A i \in p..(q - 1) : s[i] \in cls }

IsWordAt(s, i) == i \in 1..Len(s) /\ s[i] \in WordClass

\* \b : the positions of P between a word and a non-word character
WordBoundary(s, P) == { p \in P : IsWordAt(s, p - 1) # IsWordAt(s, p) }

\* $ : at the end of the string, or just before a final newline
AtEnd(s, p) == p = Len(s) + 1 \/ (p = Len(s) /\ s[p] = "\n")

\* DownloadThread.url_regex.match(s) is not None
url_regex_match(s) ==
    LET p0 == {1}
        p1 == Lit(s, p0, <<"h","t","t","p">>)
        p2 == p1 \cup Lit(s, p1, <<"s">>)
        p3 == Lit(s, p2, <<":","/","/">>)
        p4 == p3 \cup Lit(s, p3, <<"w","w","w",".">>)
        p5 == Rep(s, p4, HostClass, 1, HostMax)
        p6 == Lit(s, p5, <<".">>)
        p7 == Rep(s, p6, TldClass, 1, TldMax)
        p8 == WordBoundary(s, p7)
        p9 == Rep(s, p8, PathClass, 0, Len(s))
    IN  \E p \in p9 : AtEnd(s, p)

\* the manifest locations typed into manifest_location_edit
UrlPlain    == <<"h","t","t","p",":","/","/","a",".","c","o">>
UrlWwwPath  == <<"h","t","t","p","s",":","/","/","w","w","w",".","a",".","c","o","/","m">>
UrlParenTld == <<"h","t","t","p",":","/","/","a",".","c","(",")">>
UrlNewline  == <<"h","t","t","p",":","/","/","a",".","c","o","\n">>
PathLocal   == <<"/","t","m","p","/","g",".","m">>
PathFtp     == <<"f","t","p",":","/","/","a",".","c","o">>
PathNoTld   == <<"h","t","t","p",":","/","/","a">>
PathLongTld == <<"h","t","t","p",":","/","/","a",".","t","o","o","l","o","n","g","x">>
PathSpace   == <<"h","t","t","p",":","/","/","a",".","c","o"," ","x">>

ManifestSpecs == {UrlPlain, UrlWwwPath, UrlParenTld, UrlNewline,
                  PathLocal, PathFtp, PathNoTld, PathLongTld, PathSpace}

\* the two locations the jobs of Spec are started with; SpecResolve uses them all
JobSpecs == {UrlPlain, PathLocal}

\* a float x / y is kept exact, as the pair of its numerator and denominator
Q(n, d) == [num |-> n, den |-> d]

\* int(x) for x >= 0
ToInt(q) == q.num \div q.den

\* f"{x:.2f}" for x >= 0, in hundredths: the nearest, ties to even
Fmt2(q) ==
    LET n == q.num * 100
        lo == n \div q.den
        r2 == 2 * (n % q.den)
    IN  IF r2 > q.den \/ (r2 = q.den /\ lo % 2 = 1) THEN lo + 1 ELSE lo

\* legendary.models.downloading.UIUpdate values the engine puts; None is falsy
None == [none |-> TRUE]
UIUpdate(p, d, r, w) ==
    [progress |-> p, download_speed |-> d, read_speed |-> r, write_speed |-> w]
\* the k-th sample the engines put: progress (a percentage, fractional until the
\* last sample) grows to 100, the rates are in bytes per second
Sample(k) ==
    UIUpdate(Q(100 * (2 * k - 1), 2 * MaxSamples - 1),
             786432 * k, 5243 * k, 1048576 * (k - 1))

\* what a fetch or a read can return: bytes the binary decoder accepts, bytes only
\* the JSON decoder accepts, bytes neither accepts (an HTML error page, say)
Payloads == {"binary", "json", "garbage"}
\* the body of a response with an error status is whatever the server sends: a
\* page no decoder accepts, or bytes that decode
ErrorBodies == {"json", "garbage"}

\* Manifest.read_all(data)
Manifest_read_all(data) ==
    IF data = "binary"
    THEN [ok |-> TRUE,  value |-> <<"Manifest", data>>]
    ELSE [ok |-> FALSE, value |-> <<"Manifest.read_all failed", data>>]

\* JSONManifest.read_all(data)
JSONManifest_read_all(data) ==
    IF data = "json"
    THEN [ok |-> TRUE,  value |-> <<"JSONManifest", data>>]
    ELSE [ok |-> FALSE, value |-> <<"JSONManifest.read_all failed", data>>]

VARIABLES
    threads,          \* the DownloadThread objects created so far, in order
    download_thread,  \* MainWindow.download_thread: 0 is None, else an index of threads
    download_button,  \* download_button.isEnabled()
    progress_bar,     \* progress_bar.value()
    progress_label,   \* progress_label.text()
    speed_label,      \* speed_label.text()
    events,           \* signals queued for the slots of the window, oldest first
    closes,           \* closeEvent deliveries so far
    notified,         \* per thread: download_finished runs for its finished signal
    received,         \* per thread: the progress_signal arguments update_progress got
    puts,             \* samples the engines have put on progress_queue so far
    ctl               \* the writes of manager.running and the kill() calls, in order

vars == <<threads, download_thread, download_button, progress_bar, progress_label,
          speed_label, events, closes, notified, received, puts, ctl>>

gui == <<download_thread, download_button, progress_bar, progress_label, speed_label,
         closes, notified, received, ctl>>


Jobs == 1..Len(threads)

\* MainWindow.init_ui
Init ==
    /\ threads = <<>>
    /\ download_thread = 0
    /\ download_button = TRUE
    /\ progress_bar = 0
    /\ progress_label = <<>>
    /\ speed_label = <<>>
    /\ events = <<>>
    /\ closes = 0
    /\ notified = <<>>
    /\ received = <<>>
    /\ puts = 0
    /\ ctl = <<>>

\* before run() assigns them, data and manifest are unbound
NoData == "unbound"
NoManifest == <<>>

\* DownloadThread.__init__, and QThread.start(): run() is about to execute
NewThread(m) ==
    [manifest |-> m, pc |-> "run", data |-> NoData, status |-> "none",
     manifest_obj |-> NoManifest,
     calls |-> <<>>, log |-> <<>>, running |-> TRUE, sigterms |-> 0,
     samples |-> <<>>, exit |-> "none"]

\* download_file keeping one DownloadThread: it is created on the first click and
\* started again on every later one
download_file_reuse(m) ==
    /\ download_button
    /\ closes = 0
    /\ IF download_thread = 0
       THEN /\ threads' = Append(threads, NewThread(m))
            /\ download_thread' = Len(threads) + 1
            /\ notified' = Append(notified, 0)
            /\ received' = Append(received, <<>>)
       ELSE /\ threads' = [threads EXCEPT ![download_thread] =
                             [@ EXCEPT !.manifest = m, !.pc = "run"]]
            /\ UNCHANGED <<download_thread, notified, received>>
    /\ download_button' = FALSE
    /\ UNCHANGED <<progress_bar, progress_label, speed_label, events, closes, puts, ctl>>

\* MainWindow.download_file, on a click of the enabled, visible download button
download_file(m) ==
    /\ download_button
    /\ closes = 0
    /\ threads' = Append(threads, NewThread(m))
    /\ download_thread' = Len(threads) + 1
    /\ download_button' = FALSE
    /\ notified' = Append(notified, 0)
    /\ received' = Append(received, <<>>)
    /\ UNCHANGED <<progress_bar, progress_label, speed_label, events, closes, puts, ctl>>

\* what requests.get(...).content and open(...).read() can do
FetchOutcomes == {"ok", "http_error", "RequestException"}
ReadOutcomes == {"ok", "FileNotFoundError", "OSError"}

\* run(), lines 60-66, on thread record t: requests.get returns (whatever the
\* status: raise_for_status is not called, and resp.content is the body sent with
\* it) or raises RequestException; status keeps the class of resp.status_code,
\* which run() never reads
Fetch(t, outcome, body) ==
    LET u == [t EXCEPT !.log = Append(@, <<"info", "Downloading manifest from URL...">>),
                       !.calls = Append(@, <<"requests.get">>)]
    IN  CASE outcome = "ok" ->
               [u EXCEPT !.pc = "decode", !.data = body, !.status = "ok"]
          [] outcome = "http_error" ->
               [u EXCEPT !.pc = "decode", !.data = body, !.status = "error"]
          [] outcome = "RequestException" ->
               [u EXCEPT !.pc = "returned",
                         !.log = Append(@, <<"error", "Error downloading manifest",
                                             <<"RequestException">> >>)]

\* run(), lines 68-73, on thread record t: open/read returns, raises
\* FileNotFoundError, or raises another OSError (PermissionError,
\* IsADirectoryError), which no except clause catches
Read(t, outcome, body) ==
    LET u == [t EXCEPT !.calls = Append(@, <<"open">>)]
    IN  CASE outcome = "ok" ->
               [u EXCEPT !.pc = "decode", !.data = body]
          [] outcome = "FileNotFoundError" ->
               [u EXCEPT !.pc = "returned",
                         !.log = Append(@, <<"error", "Manifest file not found.">>)]
          [] outcome = "OSError" ->
               [u EXCEPT !.pc = "raised", !.exit = "OSError"]

\* resolve with the return of line 66 lost: a fetch that raised falls through to
\* the read of the local file
resolve_fallthrough(j, outcome, body) ==
    LET t == threads[j]
        remote == url_regex_match(t.manifest)
        f == Fetch(t, outcome, body) IN
    /\ t.pc = "run"
    /\ outcome \in (IF remote THEN FetchOutcomes ELSE ReadOutcomes)
    /\ outcome = "http_error" => body \in ErrorBodies
    /\ threads' = [threads EXCEPT ![j] =
         IF remote
         THEN IF outcome = "RequestException"
              THEN Read([f EXCEPT !.pc = "run"], "FileNotFoundError", body)
              ELSE f
         ELSE Read(t, outcome, body)]
    /\ UNCHANGED <<gui, events, puts>>

\* run(), lines 59-73: the branch on url_regex and the one fetch or read it leads to
resolve(j, outcome, body) ==
    LET t == threads[j]
        remote == url_regex_match(t.manifest) IN
    /\ t.pc = "run"
    /\ outcome \in (IF remote THEN FetchOutcomes ELSE ReadOutcomes)
    /\ outcome = "http_error" => body \in ErrorBodies
    /\ threads' = [threads EXCEPT ![j] =
         IF remote THEN Fetch(t, outcome, body) ELSE Read(t, outcome, body)]
    /\ UNCHANGED <<gui, events, puts>>

\* Decode with the decoders exchanged: the JSON decoder first, the binary decoder
\* when it fails
Decode_json_first(t) ==
    LET r1 == JSONManifest_read_all(t.data)
        r2 == Manifest_read_all(t.data)
    IN  IF r1.ok
        THEN [t EXCEPT !.pc = "analysis", !.manifest_obj = r1.value,
                       !.calls = Append(@, <<"JSONManifest.read_all">>)]
        ELSE IF r2.ok
        THEN [t EXCEPT !.pc = "analysis", !.manifest_obj = r2.value,
                       !.calls = @ \o << <<"JSONManifest.read_all">>,
                                         <<"Manifest.read_all">> >>]
        ELSE [t EXCEPT !.pc = "returned",
                       !.calls = @ \o << <<"JSONManifest.read_all">>,
                                         <<"Manifest.read_all">> >>,
                       !.log = Append(@, <<"error", "Error parsing manifest", r2.value>>)]

\* Decode with the error of the binary decoder kept and logged when both fail
Decode_first_error(t) ==
    LET r1 == Manifest_read_all(t.data)
        r2 == JSONManifest_read_all(t.data)
    IN  IF r1.ok
        THEN [t EXCEPT !.pc = "analysis", !.manifest_obj = r1.value,
                       !.calls = Append(@, <<"Manifest.read_all">>)]
        ELSE IF r2.ok
        THEN [t EXCEPT !.pc = "analysis", !.manifest_obj = r2.value,
                       !.calls = @ \o << <<"Manifest.read_all">>,
                                         <<"JSONManifest.read_all">> >>]
        ELSE [t EXCEPT !.pc = "returned",
                       !.calls = @ \o << <<"Manifest.read_all">>,
                                         <<"JSONManifest.read_all">> >>,
                       !.log = Append(@, <<"error", "Error parsing manifest", r1.value>>)]

\* run(), lines 75-82, on thread record t
Decode(t) ==
    LET r1 == Manifest_read_all(t.data)
        r2 == JSONManifest_read_all(t.data)
    IN  IF r1.ok
        THEN [t EXCEPT !.pc = "analysis", !.manifest_obj = r1.value,
                       !.calls = Append(@, <<"Manifest.read_all">>)]
        ELSE IF r2.ok
        THEN [t EXCEPT !.pc = "analysis", !.manifest_obj = r2.value,
                       !.calls = @ \o << <<"Manifest.read_all">>,
                                         <<"JSONManifest.read_all">> >>]
        ELSE [t EXCEPT !.pc = "returned",
                       !.calls = @ \o << <<"Manifest.read_all">>,
                                         <<"JSONManifest.read_all">> >>,
                       !.log = Append(@, <<"error", "Error parsing manifest", r2.value>>)]

\* run(), lines 75-82: the binary decoder, then on any exception the JSON decoder
decode(j) ==
    /\ threads[j].pc = "decode"
    /\ threads' = [threads EXCEPT ![j] = Decode(threads[j])]
    /\ UNCHANGED <<gui, events, puts>>

\* run(), lines 84-87: run_analysis raises outside every try, or returns and
\* manager.run() is entered
run_analysis(j, outcome) ==
    LET t == threads[j] IN
    /\ t.pc = "analysis"
    /\ threads' = [threads EXCEPT ![j] =
         IF outcome = "return"
         THEN [t EXCEPT !.pc = "engine",
                        !.calls = @ \o << <<"run_analysis", t.manifest_obj>>,
                                          <<"manager.run">> >>]
         ELSE [t EXCEPT !.pc = "raised", !.exit = "Exception",
                        !.calls = Append(@, <<"run_analysis", t.manifest_obj>>)]]
    /\ UNCHANGED <<gui, events, puts>>

\* SignalArgs with the progress divided like the three rates
SignalArgs_scaled(progress) ==
    <<Q(progress.progress.num, progress.progress.den * 1024 * 1024),
      Q(progress.download_speed, 1024 * 1024),
      Q(progress.read_speed, 1024 * 1024),
      Q(progress.write_speed, 1024 * 1024)>>

\* the arguments DownloadThread.update_progress emits for a sample
SignalArgs(progress) ==
    <<progress.progress,
      Q(progress.download_speed, 1024 * 1024),
      Q(progress.read_speed, 1024 * 1024),
      Q(progress.write_speed, 1024 * 1024)>>

\* update_progress_emit as a single slot: the sample replaces the unread samples
\* of the thread instead of following them
update_progress_emit_slot(j, item) ==
    IF item # None
    THEN Append(SelectSeq(events, LAMBDA e : ~(e.sig = "progress_signal" /\ e.sender = j)),
                [sig |-> "progress_signal", sender |-> j, args |-> SignalArgs(item)])
    ELSE events

\* UpdateProgress.put -> DownloadThread.update_progress: what the put adds to the
\* queued signals
update_progress_emit(j, item) ==
    IF item # None
    THEN Append(events, [sig |-> "progress_signal", sender |-> j,
                         args |-> SignalArgs(item)])
    ELSE events

\* the engine, inside manager.run(), calls progress_queue.put(item); a put of None
\* changes nothing, and only the samples are counted against MaxSamples
put(j, item) ==
    LET t == threads[j] IN
    /\ t.pc = "engine"
    /\ item # None => puts < MaxSamples
    /\ puts' = IF item # None THEN puts + 1 ELSE puts
    /\ threads' = [threads EXCEPT ![j] =
         IF item # None THEN [t EXCEPT !.samples = Append(@, item)] ELSE t]
    /\ events' = update_progress_emit(j, item)
    /\ UNCHANGED gui

\* engine_done with finished delivered ahead of the signals already queued
engine_done_ahead(j, outcome) ==
    LET t == threads[j] IN
    /\ t.pc = "engine"
    /\ threads' = [threads EXCEPT ![j] =
         [t EXCEPT !.pc = IF outcome = "Exception" THEN "raised" ELSE "returned",
                   !.exit = outcome]]
    /\ events' = <<[sig |-> "finished", sender |-> j]>> \o events
    /\ UNCHANGED <<gui, puts>>

\* run(), lines 86-91: manager.run() returns, raises SystemExit, or raises another
\* exception; the finally clause emits finished in each case
engine_done(j, outcome) ==
    LET t == threads[j] IN
    /\ t.pc = "engine"
    /\ threads' = [threads EXCEPT ![j] =
         [t EXCEPT !.pc = IF outcome = "Exception" THEN "raised" ELSE "returned",
                   !.exit = outcome]]
    /\ events' = Append(events, [sig |-> "finished", sender |-> j])
    /\ UNCHANGED <<gui, puts>>

\* QThread: when run() has returned, the thread emits its finished signal
thread_finished(j) ==
    LET t == threads[j] IN
    /\ t.pc = "returned"
    /\ threads' = [threads EXCEPT ![j] = [t EXCEPT !.pc = "finished"]]
    /\ events' = Append(events, [sig |-> "finished", sender |-> j])
    /\ UNCHANGED <<gui, puts>>

\* where run() is: before manager.run() is entered, inside it, or after it
Phase(pc) ==
    CASE pc \in {"run", "decode", "analysis"} -> "resolving"
      [] pc = "engine" -> "downloading"
      [] pc \in {"returned", "finished", "raised"} -> "ended"

\* Release with the two steps exchanged: kill() first, the flag after it
Release_kill_first(by, s, d) ==
    /\ threads' = [threads EXCEPT ![d] =
         [@ EXCEPT !.running = FALSE, !.sigterms = @ + 1]]
    /\ ctl' = ctl \o
         << [by |-> by, sender |-> s, target |-> d, op |-> "SIGTERM",
             at |-> Phase(threads[d].pc)],
            [by |-> by, sender |-> s, target |-> d, op |-> "running=False",
             at |-> Phase(threads[d].pc)] >>

\* manager.running = False, then DownloadThread.kill(), on thread d; by is the handler
\* and s the thread whose signal it handles (0 for none). kill() is recorded when it
\* is called: what os.kill then does to the process is outside the program
Release(by, s, d) ==
    /\ threads' = [threads EXCEPT ![d] =
         [@ EXCEPT !.running = FALSE, !.sigterms = @ + 1]]
    /\ ctl' = ctl \o
         << [by |-> by, sender |-> s, target |-> d, op |-> "running=False",
             at |-> Phase(threads[d].pc)],
            [by |-> by, sender |-> s, target |-> d, op |-> "SIGTERM",
             at |-> Phase(threads[d].pc)] >>

\* MainWindow.update_progress, the slot of progress_signal
update_progress ==
    /\ events # <<>>
    /\ Head(events).sig = "progress_signal"
    /\ LET e == Head(events) IN
        /\ progress_bar' = ToInt(e.args[1])
        /\ speed_label' = <<"Download", Fmt2(e.args[2]), "MB/s">>
        /\ progress_label' = <<"R/W", Fmt2(e.args[3]), "MB/s", Fmt2(e.args[4]), "MB/s">>
        /\ received' = [received EXCEPT ![e.sender] = Append(@, e.args)]
    /\ events' = Tail(events)
    /\ UNCHANGED <<threads, download_thread, download_button, closes, notified, puts, ctl>>

\* MainWindow.download_finished, the slot of finished
download_finished ==
    /\ events # <<>>
    /\ Head(events).sig = "finished"
    /\ download_button' = TRUE
    /\ progress_bar' = 0
    /\ progress_label' = <<"Download Finished">>
    /\ speed_label' = <<>>
    /\ Release("download_finished", Head(events).sender, download_thread)
    /\ notified' = [notified EXCEPT ![Head(events).sender] = @ + 1]
    /\ events' = Tail(events)
    /\ UNCHANGED <<download_thread, closes, received, puts>>

\* MainWindow.closeEvent
closeEvent ==
    /\ closes < MaxCloses
    /\ closes' = closes + 1
    /\ IF download_thread # 0
       THEN Release("closeEvent", 0, download_thread)
       ELSE UNCHANGED <<threads, ctl>>
    /\ UNCHANGED <<download_thread, download_button, progress_bar, progress_label,
                   speed_label, events, notified, received, puts>>

\* the steps of the job contexts and the slots of the window
Step ==
    \/ \E j \in Jobs : \E o \in FetchOutcomes \cup ReadOutcomes :
         \E b \in Payloads : resolve(j, o, b)
    \/ \E j \in Jobs : decode(j)
    \/ \E j \in Jobs : \E o \in {"return", "Exception"} : run_analysis(j, o)
    \/ \E j \in Jobs : \E s \in {Sample(puts + 1), None} : put(j, s)
    \/ \E j \in Jobs : \E o \in {"return", "SystemExit", "Exception"} : engine_done(j, o)
    \/ \E j \in Jobs : thread_finished(j)
    \/ update_progress
    \/ download_finished
    \/ closeEvent

Next ==
    \/ \E m \in JobSpecs : Len(threads) < MaxJobs /\ download_file(m)
    \/ Step

Spec == Init /\ [][Next]_vars

\* one job, started with any of the manifest locations
NextResolve ==
    \/ \E m \in ManifestSpecs : Len(threads) < 1 /\ download_file(m)
    \/ Step

SpecResolve == Init /\ [][NextResolve]_vars

\* two jobs, one started after the other, with the locations of Spec
NextPair ==
    \/ \E m \in JobSpecs : Len(threads) < 2 /\ download_file(m)
    \/ Step

SpecPair == Init /\ [][NextPair]_vars

\* the event loop of the window delivers every queued signal, and a QThread whose
\* run() has returned emits finished
Fairness ==
    /\ WF_vars(update_progress)
    /\ WF_vars(download_finished)
    /\ WF_vars(\E j \in Jobs : thread_finished(j))

\* one job, from its start to its terminal notification, under that scheduling
SpecLive == Init /\ [][NextResolve]_vars /\ Fairness

(***************************************************************************)
(* Vocabulary of the properties.                                           *)
(***************************************************************************)
Range(s) == { s[i] : i \in DOMAIN s }

\* run() of thread j has made the call c
Called(j, c) == c \in Range(threads[j].calls)

\* the fetch and read attempts run() of thread j has made
Attempts(j) == SelectSeq(threads[j].calls,
                         LAMBDA c : c \in {<<"requests.get">>, <<"open">>})

\* the error lines run() of thread j has logged
Errors(j) == SelectSeq(threads[j].log, LAMBDA l : l[1] = "error")

\* the progress_signal emissions of thread j not yet handled, oldest first
Pending(j) == SelectSeq(events, LAMBDA e : e.sig = "progress_signal" /\ e.sender = j)

\* the finished emissions of thread j not yet handled
PendingFinished(j) == SelectSeq(events, LAMBDA e : e.sig = "finished" /\ e.sender = j)

\* thread j has stopped and none of its finished signals is still queued
Settled(j) == /\ threads[j].pc \in {"finished", "raised"}
              /\ PendingFinished(j) = <<>>

\* closeEvent ran on thread j while run() was in phase ph
ClosedAt(j, ph) ==
    \E i \in DOMAIN ctl : /\ ctl[i].by = "closeEvent"
                          /\ ctl[i].target = j
                          /\ ctl[i].at = ph

\* the step is a run of the slot download_finished for a signal of thread j
FinishedSlotFor(j) ==
    /\ events # <<>>
    /\ Head(events).sig = "finished"
    /\ Head(events).sender = j
    /\ events' = Tail(events)
    /\ notified' = [notified EXCEPT ![j] = @ + 1]

(***************************************************************************)
(* C1..C4: the terminal notification, uncaught failures, cancellation.     *)
(***************************************************************************)
\* C1: every started job notifies the terminal handler exactly once: never twice,
\* and once its thread has stopped and its signals are handled, not zero times.
C1_NotifiedExactlyOnce ==
    \A j \in Jobs : /\ notified[j] + Len(PendingFinished(j)) <= 1
                    /\ Settled(j) => notified[j] = 1

\* C2: no failure inside the job context leaves run() as an uncaught exception.
C2_NoUncaughtFailure ==
    \A j \in Jobs : threads[j].pc # "raised"

\* C3: a job cancelled before manager.run() was entered never enters Downloading
\* and never completes as a finished download.
C3_EarlyCancelNeverDownloads ==
    \A j \in Jobs : ClosedAt(j, "resolving") =>
        /\ Phase(threads[j].pc) # "downloading"
        /\ threads[j].exit # "return"

\* C4: when a job cancelled inside manager.run() is notified, what the caller is
\* told is not that the download finished, and the termination of the engine's
\* process has been sent.
C4_CancelDownloadingReportsCancelled ==
    [][ \A j \in Jobs : (FinishedSlotFor(j) /\ ClosedAt(j, "downloading")) =>
            /\ progress_label' # <<"Download Finished">>
            /\ threads[j].sigterms > 0 ]_vars

(***************************************************************************)
(* C5, C6: the two steps of a cancellation, and cancelling a finished job. *)
(***************************************************************************)
\* the handlers that have released an engine: every run of download_finished, and
\* every closeEvent since the first job (none is started after a closeEvent)
Releases ==
    LET RECURSIVE Sum(_)
        Sum(j) == IF j = 0 THEN 0 ELSE notified[j] + Sum(j - 1)
    IN  IF threads = <<>> THEN 0 ELSE closes + Sum(Len(threads))

\* C5: every cancellation clears manager.running and then sends the termination,
\* in that order and both each time; no termination is sent to an engine whose
\* flag is still set.
C5_FlagThenTerminate ==
    /\ Len(ctl) = 2 * Releases
    /\ \A k \in 1..Releases :
         /\ ctl[2 * k - 1].op = "running=False"
         /\ ctl[2 * k].op = "SIGTERM"
         /\ ctl[2 * k].target = ctl[2 * k - 1].target
         /\ ctl[2 * k].by = ctl[2 * k - 1].by
    /\ \A j \in Jobs : threads[j].sigterms > 0 => ~threads[j].running

\* C5 witness: a closeEvent and a download_finished have both released an engine
C5_Witness ==
    /\ \E i \in DOMAIN ctl : ctl[i].by = "closeEvent" /\ ctl[i].op = "SIGTERM"
    /\ \E i \in DOMAIN ctl : ctl[i].by = "download_finished" /\ ctl[i].op = "SIGTERM"

\* C6: a closeEvent that comes after the terminal notification of the current job
\* writes nothing to its engine and sends no termination.
C6_CancelAfterTerminalIsNoOp ==
    [][ (/\ closes' = closes + 1
         /\ download_thread # 0
         /\ notified[download_thread] > 0) => UNCHANGED <<threads, ctl, events>> ]_vars

(***************************************************************************)
(* C7..C9: manifest resolution and decoding.                               *)
(***************************************************************************)
\* the one fetch or read of thread j failed: an HTTP error status, a
\* RequestException, a missing or unreadable file
ResolutionFailed(j) ==
    \/ threads[j].status = "error"
    \/ threads[j].exit = "OSError"
    \/ \E l \in Range(threads[j].log) :
         l[1] = "error" /\ l[2] \in {"Error downloading manifest", "Manifest file not found."}

\* C7: after a failed resolution no decoder is called, the engine is never analysed
\* or run, and Downloading is never entered.
C7_FailedResolutionStops ==
    \A j \in Jobs : ResolutionFailed(j) =>
        /\ ~Called(j, <<"Manifest.read_all">>)
        /\ ~Called(j, <<"JSONManifest.read_all">>)
        /\ ~Called(j, <<"manager.run">>)
        /\ Phase(threads[j].pc) # "downloading"

\* both decoders have been tried on the data of thread j and both failed
BothDecodersFailed(j) ==
    /\ Called(j, <<"JSONManifest.read_all">>)
    /\ ~Manifest_read_all(threads[j].data).ok
    /\ ~JSONManifest_read_all(threads[j].data).ok

\* C8: when both decoders fail the job logs one error, which carries the error of
\* the JSON decoder and not that of the binary decoder; the engine is never
\* analysed or run, and the job is notified at most once.
C8_FallbackErrorWins ==
    \A j \in Jobs : BothDecodersFailed(j) =>
        /\ Errors(j) = << <<"error", "Error parsing manifest",
                            JSONManifest_read_all(threads[j].data).value>> >>
        /\ Errors(j)[1][3] # Manifest_read_all(threads[j].data).value
        /\ \A c \in Range(threads[j].calls) : c[1] \notin {"run_analysis", "manager.run"}
        /\ threads[j].pc \in {"returned", "finished"}
        /\ notified[j] + Len(PendingFinished(j)) <= 1

\* C8 witness: both decoders failed on fetched bytes and the job has been notified
C8_Witness ==
    \E j \in Jobs : /\ BothDecodersFailed(j)
                    /\ threads[j].data = "garbage"
                    /\ threads[j].pc = "finished"
                    /\ notified[j] = 1

\* C9: a job makes one resolution attempt and no more, a fetch exactly when the
\* location matches url_regex and a read of the local file otherwise.
C9_OneAttemptOneSource ==
    \A j \in Jobs :
        /\ Len(Attempts(j)) = (IF threads[j].pc = "run" THEN 0 ELSE 1)
        /\ Called(j, <<"requests.get">>) <=>
             (threads[j].pc # "run" /\ url_regex_match(threads[j].manifest))
        /\ Called(j, <<"open">>) <=>
             (threads[j].pc # "run" /\ ~url_regex_match(threads[j].manifest))

\* C9 witness: a location that looks like a URL but fails the pattern was read as
\* a local file, and the read failed without any fetch
C9_Witness ==
    \E j \in Jobs : /\ threads[j].manifest = PathLongTld
                    /\ threads[j].calls = << <<"open">> >>
                    /\ threads[j].pc = "finished"

Started == download_button /\ ~download_button'

NormalRun(j) == threads[j].exit = "return"

PhaseRank(pc) ==
    CASE Phase(pc) = "resolving" -> 1
      [] Phase(pc) = "downloading" -> 2
      [] Phase(pc) = "ended" -> 3

\* the progress is the completion value v: x = v as floats
IsProgress(x, v) == x.num = v * x.den

CtlOf(j) == SelectSeq(ctl, LAMBDA c : c.target = j)

\* C13: once a job is terminal (its thread has stopped, whether or not the engine
\* ever ran, and its signals are handled) its engine is released: the running flag
\* is false and the termination has been sent, the flag cleared first.
C13_TerminalReleasesEngine ==
    \A j \in Jobs : Settled(j) =>
        /\ ~threads[j].running
        /\ threads[j].sigterms > 0
        /\ Len(CtlOf(j)) >= 2
        /\ CtlOf(j)[1].op = "running=False"
        /\ CtlOf(j)[2].op = "SIGTERM"

(***************************************************************************)
(* C14: run_analysis before manager.run().                                 *)
(***************************************************************************)
\* the calls of run_analysis that run() of thread j has made
Analyses(j) == SelectSeq(threads[j].calls, LAMBDA c : c[1] = "run_analysis")

\* manager.run() of thread j was called right after a run_analysis that returned,
\* on a manifest one of the decoders produced from the data of the job
RunFollowsAnalysis(j) ==
    LET c == threads[j].calls IN
    /\ c[Len(c)] = <<"manager.run">>
    /\ Len(c) >= 2
    /\ c[Len(c) - 1] = <<"run_analysis", threads[j].manifest_obj>>
    /\ threads[j].manifest_obj \in {Manifest_read_all(threads[j].data).value,
                                    JSONManifest_read_all(threads[j].data).value}
    /\ \/ Manifest_read_all(threads[j].data).ok
       \/ JSONManifest_read_all(threads[j].data).ok

\* C14: manager.run() is called only after run_analysis has returned, on a
\* manifest that was decoded, and never when the resolution or both decoders
\* failed; run_analysis is called at most once in a job.
C14_RunOnlyAfterAnalysis ==
    \A j \in Jobs :
        /\ Len(Analyses(j)) <= 1
        /\ Called(j, <<"manager.run">>) =>
              /\ RunFollowsAnalysis(j)
              /\ ~BothDecodersFailed(j)
              /\ ~ResolutionFailed(j)

(***************************************************************************)
(* C15: the order of the decoders and the manifest handed to the engine.   *)
(***************************************************************************)
\* the decoder calls run() of thread j has made, in order
Decodes(j) == SelectSeq(threads[j].calls,
                        LAMBDA c : c \in {<<"Manifest.read_all">>,
                                          <<"JSONManifest.read_all">>})

\* the binary decoder failed on the data of thread j and the JSON decoder, tried
\* after it, succeeded
FallbackSucceeded(j) ==
    /\ Decodes(j) = << <<"Manifest.read_all">>, <<"JSONManifest.read_all">> >>
    /\ JSONManifest_read_all(threads[j].data).ok

ProgressSlotFor(j) ==
    /\ events # <<>>
    /\ Head(events).sig = "progress_signal"
    /\ Head(events).sender = j
    /\ received' = [received EXCEPT ![j] = Append(@, Head(events).args)]

\* C16: update_progress never runs for a sample of a job after download_finished
\* has run for that job: when download_finished runs for it, every sample its
\* engine put has been handled by update_progress and none is still queued.
C16_NoProgressAfterTerminal ==
    /\ [][ \A j \in Jobs : ProgressSlotFor(j) => notified[j] = 0 ]_vars
    /\ [](\A j \in Jobs : notified[j] >= 1 =>
            /\ Pending(j) = <<>>
            /\ Len(received[j]) = Len(threads[j].samples))

\* C16 witness: a job whose engine put samples has been notified, and the display
\* is as download_finished left it
C16_Witness ==
    \E j \in Jobs : /\ Len(threads[j].samples) >= 2
                    /\ Len(received[j]) = Len(threads[j].samples)
                    /\ notified[j] >= 1
                    /\ progress_bar = 0
                    /\ progress_label = <<"Download Finished">>
                    /\ speed_label = <<>>

(***************************************************************************)
(* C17: whose engine a terminal notification releases.                     *)
(***************************************************************************)
\* C17: download_finished, run for a signal of one job, clears the running flag
\* and sends the termination only for the engine of that job, never for the
\* engine of a job started after it.
C17_ReleasesOwnEngine ==
    \A i \in DOMAIN ctl :
        ctl[i].by = "download_finished" => ctl[i].target = ctl[i].sender

(***************************************************************************)
(* C18: one running job at a time.                                         *)
(***************************************************************************)
\* thread j is executing run()
Running(j) == Phase(threads[j].pc) \in {"resolving", "downloading"}

\* C18: at most one DownloadThread is executing run(), and whenever the download
\* button is enabled no thread started before is still executing run().
C18_OneRunningJob ==
    /\ Cardinality({j \in Jobs : Running(j)}) <= 1
    /\ download_button => \A j \in Jobs : ~Running(j)
====
